---- MODULE Spec2Model ----
(***************************************************************************)
(* Model of osrc_download.py: the search / modal / download pipeline, the  *)
(* chunked streaming loop and its two exception handlers.                  *)
(*                                                                         *)
(* Python strings are sequences of one-character strings, so that strip,   *)
(* split, replace, int and encode are computed and not assumed.  A dict is *)
(* a function from key names to values; d[k] = v is (k :> v) @@ d.         *)
(* A reference to a dict held in dataList is its index (0 is None).        *)
(***************************************************************************)
EXTENDS Integers, Sequences, FiniteSets, TLC

(* ---------------------------- bounds ----------------------------------- *)
MaxRows == 2
MaxChunks == 2

(* ---------------------- program constants ------------------------------ *)
ChunkSize == 524288

searchURL == "uploadSearch"
modalURL == "downSrcMPop"
downSrcURL == "downSrcCode"

AOP == <<"A", "O", "P">>

(* ---------------------- string functions ------------------------------- *)
IsSpace(c) == c \in {" ", "\t", "\n"}

RECURSIVE LStrip(_)
LStrip(s) == IF s # <<>> /\ IsSpace(Head(s)) THEN LStrip(Tail(s)) ELSE s

RECURSIVE RStrip(_)
RStrip(s) ==
    IF s # <<>> /\ IsSpace(s[Len(s)]) THEN RStrip(SubSeq(s, 1, Len(s) - 1)) ELSE s

\* str.strip()
Strip(s) == RStrip(LStrip(s))

\* str.split(d) for a one-character delimiter: the list of fields
RECURSIVE Split(_, _)
Split(s, d) ==
    IF \E i \in 1..Len(s) : s[i] = d
    THEN LET k == CHOOSE i \in 1..Len(s) : s[i] = d /\ \A j \in 1..(i - 1) : s[j] # d
         IN <<SubSeq(s, 1, k - 1)>> \o Split(SubSeq(s, k + 1, Len(s)), d)
    ELSE <<s>>

\* str.replace(c, "")
RECURSIVE Remove(_, _)
Remove(s, c) ==
    IF s = <<>> THEN <<>>
    ELSE (IF Head(s) = c THEN <<>> ELSE <<Head(s)>>) \o Remove(Tail(s), c)

\* s[1:]
DropFirst(s) == IF s = <<>> THEN <<>> ELSE Tail(s)

Digits == <<"0", "1", "2", "3", "4", "5", "6", "7", "8", "9">>
IsDigit(c) == \E d \in 1..10 : Digits[d] = c
DigitVal(c) == (CHOOSE d \in 1..10 : Digits[d] = c) - 1

\* int(s) accepts surrounding whitespace and decimal digits
IntOk(s) == Strip(s) # <<>> /\ \A i \in 1..Len(Strip(s)) : IsDigit(Strip(s)[i])

RECURSIVE DecVal(_)
DecVal(s) == IF s = <<>> THEN 0 ELSE 10 * DecVal(SubSeq(s, 1, Len(s) - 1)) + DigitVal(s[Len(s)])

ParseInt(s) == DecVal(Strip(s))

\* code points of the characters that occur in token values ("E" stands for U+00E9)
CodePoint(c) == IF c = "t" THEN 116 ELSE IF c = "k" THEN 107 ELSE 233

\* UTF-8 encoding of one code point below 2048
Utf8(cp) == IF cp < 128 THEN <<cp>> ELSE <<192 + (cp \div 64), 128 + (cp % 64)>>

\* str.encode("utf-8")
RECURSIVE Encode(_)
Encode(s) == IF s = <<>> THEN <<>> ELSE Utf8(CodePoint(Head(s))) \o Encode(Tail(s))

(* ---------------------- the search page -------------------------------- *)
\* a <td>: its text and the href of each <a> inside it
Cell(t, as) == [text |-> t, anchors |-> as]
Blank == Cell(<<>>, <<>>)

ModelTexts == {<<" ", "m">>}
VersionTexts == {<<"a">>, <<" ", "b", " ">>, <<" ">>}
Hrefs == {<<"j", "'", "1", "'">>, <<"j", "'", "2", "'", "x">>, <<"j">>}
AnchorLists == {<<h>> : h \in Hrefs} \cup {<<>>}

\* a row with the six cells the portal sends
MkRow(m, v, as) == <<Blank, Cell(m, <<>>), Cell(v, <<>>), Blank, Blank, Cell(<<>>, as)>>
ShortRow == <<Blank, Cell(<<"m">>, <<>>), Cell(<<"a">>, <<>>)>>
Rows == {MkRow(m, v, as) : m \in ModelTexts, v \in VersionTexts, as \in AnchorLists}
            \cup {ShortRow}

RowSeqs == UNION {[1..n -> Rows] : n \in 0..MaxRows}
\* the tables of class tbl-downList in the response, each a list of rows
Pages == {<<>>} \cup {<<rs>> : rs \in RowSeqs}

\* lines 64-68: can the three extractions of a row be made
RowOk(row) ==
    /\ Len(row) >= 6
    /\ row[6].anchors # <<>>
    /\ Len(Split(row[6].anchors[1], "'")) >= 2

\* lines 66-75 with .strip() left out of line 67
Candidate_unstripped(row) ==
    [uploadId |-> Split(row[6].anchors[1], "'")[2],
     downloadPurpose |-> AOP,
     sourceVersion |-> row[3].text,
     sourceModel |-> Strip(row[2].text)]

\* lines 66-75: the dict appended for a row
Candidate(row) ==
    [uploadId |-> Split(row[6].anchors[1], "'")[2],
     downloadPurpose |-> AOP,
     sourceVersion |-> Strip(row[3].text),
     sourceModel |-> Strip(row[2].text)]

\* line 48 with the first item as the default of next() instead of None
find_source_default_first(dict_target, version) ==
    LET M == {i \in DOMAIN dict_target : dict_target[i]["sourceVersion"] = version}
    IN IF M = {} THEN (IF dict_target = <<>> THEN 0 ELSE 1)
       ELSE CHOOSE i \in M : \A j \in M : i <= j

\* line 48 keeping the last match instead of the first
find_source_last_match(dict_target, version) ==
    LET M == {i \in DOMAIN dict_target : dict_target[i]["sourceVersion"] = version}
    IN IF M = {} THEN 0 ELSE CHOOSE i \in M : \A j \in M : i >= j

\* line 48: index of the first item whose sourceVersion equals version, 0 for None
find_source_by_sourcever(dict_target, version) ==
    LET M == {i \in DOMAIN dict_target : dict_target[i]["sourceVersion"] = version}
    IN IF M = {} THEN 0 ELSE CHOOSE i \in M : \A j \in M : i <= j

(* ---------------------- the modal page --------------------------------- *)
\* what the three find_all calls of lines 99-101 return: the ids of the
\* checkbox inputs, the values of the elements named _csrf, the values of the
\* elements with id "token"
ModalPages ==
    {[checkboxes |-> cb, csrf |-> cs, token |-> tk] :
        cb \in {<<<<"c", "0">>, <<"c", "1">>>>, <<<<"c", "0">>>>},
        cs \in {<<<<"k">>>>, <<>>},
        tk \in {<<<<"t", "E">>>>, <<>>}}

(* ---------------------- the download response -------------------------- *)
\* each header is the list of its values: empty when the header is absent
Dispositions ==
    {<<>>,
     <<<<"n">>>>,
     <<<<"n", "=">>>>,
     <<<<"n", "=", "\"", "f", "\"", ";">>>>}
Lengths == {<<>>, <<<<"x">>>>, <<<<"2">>>>, <<<<"1", "0">>>>}
HeaderSets == {[cd |-> d, cl |-> l] : d \in Dispositions, l \in Lengths}

\* line 109
FileNameOf(cd) == Remove(Remove(DropFirst(Split(cd, "=")[2]), "\""), ";")

\* lines 109-110: the exception the two header lines raise, "" for none
HeaderFault(h) ==
    IF h.cd = <<>> THEN "KeyError"
    ELSE IF Len(Split(h.cd[1], "=")) < 2 THEN "IndexError"
    ELSE IF h.cl = <<>> THEN "KeyError"
    ELSE IF ~IntOk(h.cl[1]) THEN "ValueError"
    ELSE ""

\* the chunks iter_content can yield: a payload and its length in bytes
Chunks == {[data |-> "p", len |-> 1], [data |-> "q", len |-> ChunkSize]}

RECURSIVE Total(_)
\* number of bytes in a sequence of chunks
Total(cs) == IF cs = <<>> THEN 0 ELSE cs[1].len + Total(Tail(cs))

(* ---------------------- the working directory -------------------------- *)
FileNames == {<<"f">>}
NoFile == [exists |-> FALSE, data |-> <<>>]
OldFile == [exists |-> TRUE, data |-> <<[data |-> "o", len |-> 1]>>]

(* ---------------------- command lines ---------------------------------- *)
Versions == {<<"a">>, <<"b">>}
ArgSets ==
    {[command |-> "search", json |-> j, version |-> <<>>] : j \in BOOLEAN}
        \cup {[command |-> "download", json |-> FALSE, version |-> v] : v \in Versions}
        \cup {[command |-> "none", json |-> FALSE, version |-> <<>>]}

(* ---------------------- state ------------------------------------------ *)
VARIABLES
    args,            \* parsed command line (line 43)
    fs,              \* working directory: file name -> [exists, data]
    pc,              \* position in the script
    requestSearch,   \* content of the search response
    index,           \* rows parsed so far (loop of line 63)
    dataList,        \* line 62
    selectedSource,  \* line 89: index into dataList, 0 for None
    requestModal,    \* content of the modal response
    requestDown,     \* headers of the download response
    sourceFileName,  \* line 109
    sourceSize,      \* line 110
    progressBar,     \* line 114: [bound, n, total, closed]
    fileOpen,        \* the handle of line 115 is open
    received,        \* chunks yielded by iter_content so far
    exc,             \* exception raised inside the try block, "" for none
    handled,         \* an except clause of lines 121-130 has been entered
    out,             \* lines printed
    exitStatus,      \* exit status once pc = "exited"
    unhandled,       \* exception that left the script with a traceback, "" for none
    reqs,            \* HTTP requests issued, in order
    inflight         \* requests issued and not yet answered

vars == <<args, fs, pc, requestSearch, index, dataList, selectedSource, requestModal,
          requestDown, sourceFileName, sourceSize, progressBar, fileOpen, received,
          exc, handled, out, exitStatus, unhandled, reqs, inflight>>

netVars == <<reqs, inflight>>
searchVars == <<requestSearch, index, dataList>>
modalVars == <<selectedSource, requestModal>>
downVars == <<requestDown, sourceFileName, sourceSize>>
streamVars == <<progressBar, fileOpen, received, exc, handled>>

Init ==
    /\ args \in ArgSets
    /\ fs \in [FileNames -> {NoFile, OldFile}]
    /\ pc = "search_get"
    /\ requestSearch = <<>>
    /\ index = 0
    /\ dataList = <<>>
    /\ selectedSource = 0
    /\ requestModal = [checkboxes |-> <<>>, csrf |-> <<>>, token |-> <<>>]
    /\ requestDown = [cd |-> <<>>, cl |-> <<>>]
    /\ sourceFileName = <<>>
    /\ sourceSize = 0
    /\ progressBar = [bound |-> FALSE, n |-> 0, total |-> 0, closed |-> FALSE]
    /\ fileOpen = FALSE
    /\ received = <<>>
    /\ exc = ""
    /\ handled = FALSE
    /\ out = <<>>
    /\ exitStatus = 0
    /\ unhandled = ""
    /\ reqs = <<>>
    /\ inflight = {}

\* an exception outside any try block: traceback, exit status 1
Crash(e) ==
    /\ pc' = "exited"
    /\ exitStatus' = 1
    /\ unhandled' = e

\* exit(code)
Exit(code) ==
    /\ pc' = "exited"
    /\ exitStatus' = code
    /\ unhandled' = ""

(* ---------------------- search stage (lines 57-75) --------------------- *)
\* line 57: session.get(searchURL + quote(model)) is sent
SearchGet ==
    /\ pc = "search_get"
    /\ reqs' = Append(reqs, [url |-> searchURL, data |-> <<>>])
    /\ inflight' = inflight \cup {searchURL}
    /\ pc' = "search_wait"
    /\ UNCHANGED <<args, fs, searchVars, modalVars, downVars, streamVars, out,
                   exitStatus, unhandled>>

\* lines 57-60: the response arrives; searchTable[0] needs a table
SearchReturn ==
    /\ pc = "search_wait"
    /\ \E page \in Pages :
        /\ requestSearch' = page
        /\ inflight' = inflight \ {searchURL}
        /\ IF page = <<>>
           THEN Crash("IndexError")
           ELSE /\ pc' = "rows"
                /\ UNCHANGED <<exitStatus, unhandled>>
    /\ UNCHANGED <<args, fs, index, dataList, modalVars, downVars, streamVars, out, reqs>>

\* lines 63-75: one iteration of the row loop
ParseRow ==
    /\ pc = "rows"
    /\ index < Len(requestSearch[1])
    /\ LET row == requestSearch[1][index + 1]
       IN IF RowOk(row)
          THEN /\ dataList' = Append(dataList, Candidate(row))
               /\ index' = index + 1
               /\ UNCHANGED <<pc, exitStatus, unhandled>>
          ELSE /\ Crash(IF Len(row) >= 6 /\ row[6].anchors = <<>>
                        THEN "TypeError" ELSE "IndexError")
               /\ UNCHANGED <<dataList, index>>
    /\ UNCHANGED <<args, fs, requestSearch, modalVars, downVars, streamVars, out, netVars>>

\* line 63: the loop is exhausted
RowsDone ==
    /\ pc = "rows"
    /\ index = Len(requestSearch[1])
    /\ pc' = "command"
    /\ UNCHANGED <<args, fs, searchVars, modalVars, downVars, streamVars, out,
                   exitStatus, unhandled, netVars>>

(* ---------------------- commands (lines 79-92) ------------------------- *)
\* lines 79-84, then the end of the script
CmdSearch ==
    /\ pc = "command"
    /\ args.command = "search"
    /\ out' = IF args.json
              THEN Append(out, [msg |-> "json", arg |-> dataList])
              ELSE out \o [i \in 1..Len(dataList) |->
                             [msg |-> "line",
                              arg |-> <<i, dataList[i]["sourceModel"],
                                        dataList[i]["sourceVersion"]>>]]
    /\ Exit(0)
    /\ UNCHANGED <<args, fs, searchVars, modalVars, downVars, streamVars, netVars>>

\* no subcommand given: neither if of lines 79 and 88 is taken
CmdNone ==
    /\ pc = "command"
    /\ args.command = "none"
    /\ Exit(0)
    /\ UNCHANGED <<args, fs, searchVars, modalVars, downVars, streamVars, out, netVars>>

\* lines 88-92
Select ==
    /\ pc = "command"
    /\ args.command = "download"
    /\ selectedSource' = find_source_by_sourcever(dataList, args.version)
    /\ IF selectedSource' = 0
       THEN /\ out' = Append(out, [msg |-> "Invalid source version: ", arg |-> args.version])
            /\ Exit(1)
       ELSE /\ pc' = "modal_get"
            /\ UNCHANGED <<out, exitStatus, unhandled>>
    /\ UNCHANGED <<args, fs, searchVars, requestModal, downVars, streamVars, netVars>>

(* ---------------------- token resolver (lines 96-101) ------------------ *)
\* line 96: session.get(modalURL + selectedSource["uploadId"]) is sent
ModalGet ==
    /\ pc = "modal_get"
    /\ reqs' = Append(reqs, [url |-> modalURL, data |-> dataList[selectedSource]["uploadId"]])
    /\ inflight' = inflight \cup {modalURL}
    /\ pc' = "modal_wait"
    /\ UNCHANGED <<args, fs, searchVars, modalVars, downVars, streamVars, out,
                   exitStatus, unhandled>>

\* lines 96-97: the modal page arrives
ModalReturn ==
    /\ pc = "modal_wait"
    /\ \E page \in ModalPages : requestModal' = page
    /\ inflight' = inflight \ {modalURL}
    /\ pc' = "tokens"
    /\ UNCHANGED <<args, fs, searchVars, selectedSource, downVars, streamVars, out,
                   exitStatus, unhandled, reqs>>

\* the token stored under the key uploadId
SetItem_wrong_key(list, ref, key, value) ==
    [list EXCEPT ![ref] = ((IF key = "token" THEN "uploadId" ELSE key) :> value) @@ @]

\* selectedSource[key] = value: the dict is the one held in dataList
SetItem(list, ref, key, value) == [list EXCEPT ![ref] = (key :> value) @@ @]

\* lines 99-101: three assignments in order; the first that fails ends the script
ExtractTokens ==
    /\ pc = "tokens"
    /\ LET d0 == dataList
           ok1 == Len(requestModal.checkboxes) >= 2
           d1 == SetItem(d0, selectedSource, "attachIds", requestModal.checkboxes[2])
           ok2 == Len(requestModal.csrf) >= 1
           d2 == SetItem(d1, selectedSource, "_csrf", requestModal.csrf[1])
           ok3 == Len(requestModal.token) >= 1
           d3 == SetItem(d2, selectedSource, "token", Encode(requestModal.token[1]))
       IN IF ~ok1 THEN dataList' = d0 /\ Crash("IndexError")
          ELSE IF ~ok2 THEN dataList' = d1 /\ Crash("IndexError")
          ELSE IF ~ok3 THEN dataList' = d2 /\ Crash("IndexError")
          ELSE /\ dataList' = d3
               /\ pc' = "post"
               /\ UNCHANGED <<exitStatus, unhandled>>
    /\ UNCHANGED <<args, fs, requestSearch, index, modalVars, downVars, streamVars, out,
                   netVars>>

(* ---------------------- download request (lines 104-110) --------------- *)
\* line 108: session.post(downSrcURL, data=selectedSource, ...) is sent
Post ==
    /\ pc = "post"
    /\ reqs' = Append(reqs, [url |-> downSrcURL, data |-> dataList[selectedSource]])
    /\ inflight' = inflight \cup {downSrcURL}
    /\ pc' = "post_wait"
    /\ UNCHANGED <<args, fs, searchVars, modalVars, downVars, streamVars, out,
                   exitStatus, unhandled>>

\* line 108: the response headers arrive (stream=True: the body is not read yet)
PostReturn ==
    /\ pc = "post_wait"
    /\ \E h \in HeaderSets : requestDown' = h
    /\ inflight' = inflight \ {downSrcURL}
    /\ pc' = "headers"
    /\ UNCHANGED <<args, fs, searchVars, modalVars, sourceFileName, sourceSize,
                   streamVars, out, exitStatus, unhandled, reqs>>

\* lines 109-110 moved inside the try block
ParseHeaders_in_try ==
    /\ pc = "headers"
    /\ IF HeaderFault(requestDown) # ""
       THEN /\ exc' = HeaderFault(requestDown)
            /\ pc' = "except"
            /\ UNCHANGED <<sourceFileName, sourceSize>>
       ELSE /\ sourceFileName' = FileNameOf(requestDown.cd[1])
            /\ sourceSize' = ParseInt(requestDown.cl[1])
            /\ pc' = "print"
            /\ exc' = exc
    /\ UNCHANGED <<args, fs, searchVars, modalVars, requestDown, progressBar, fileOpen,
                   received, handled, out, exitStatus, unhandled, netVars>>

\* lines 109-110, outside the try block
ParseHeaders ==
    /\ pc = "headers"
    /\ IF HeaderFault(requestDown) # ""
       THEN /\ Crash(HeaderFault(requestDown))
            /\ UNCHANGED <<sourceFileName, sourceSize>>
       ELSE /\ sourceFileName' = FileNameOf(requestDown.cd[1])
            /\ sourceSize' = ParseInt(requestDown.cl[1])
            /\ pc' = "print"
            /\ UNCHANGED <<exitStatus, unhandled>>
    /\ UNCHANGED <<args, fs, searchVars, modalVars, requestDown, streamVars, out, netVars>>

\* a failed request is sent again
RequestFails_retry ==
    /\ inflight # {}
    /\ inflight' = {}
    /\ pc' = IF searchURL \in inflight THEN "search_get"
             ELSE IF modalURL \in inflight THEN "modal_get" ELSE "post"
    /\ UNCHANGED <<args, fs, searchVars, modalVars, downVars, streamVars, out, reqs,
                   exitStatus, unhandled>>

\* a request in flight fails (requests raises outside any try block)
RequestFails ==
    /\ inflight # {}
    /\ inflight' = {}
    /\ Crash("ConnectionError")
    /\ UNCHANGED <<args, fs, searchVars, modalVars, downVars, streamVars, out, reqs>>

(* ---------------------- streaming (lines 112-130) ---------------------- *)
\* statements inside the try block, by position
TryPcs == {"print", "bar", "open", "iter", "write", "update", "close", "done"}

\* an exception leaves the try block: the with statement closes the file
Raise(e) ==
    /\ exc' = e
    /\ fileOpen' = FALSE
    /\ pc' = "except"

\* line 113
PrintDownloading ==
    /\ pc = "print"
    /\ out' = Append(out, [msg |-> "Downloading", arg |-> sourceFileName])
    /\ pc' = "bar"
    /\ UNCHANGED <<args, fs, searchVars, modalVars, downVars, streamVars, exitStatus,
                   unhandled, netVars>>

\* line 114
MakeBar ==
    /\ pc = "bar"
    /\ progressBar' = [bound |-> TRUE, n |-> 0, total |-> sourceSize, closed |-> FALSE]
    /\ pc' = "open"
    /\ UNCHANGED <<args, fs, searchVars, modalVars, downVars, fileOpen, received, exc,
                   handled, out, exitStatus, unhandled, netVars>>

\* line 115: open(sourceFileName, "wb") creates or truncates the file
OpenFile ==
    /\ pc = "open"
    /\ sourceFileName \in FileNames
    /\ fs' = [fs EXCEPT ![sourceFileName] = [exists |-> TRUE, data |-> <<>>]]
    /\ fileOpen' = TRUE
    /\ pc' = "iter"
    /\ UNCHANGED <<args, searchVars, modalVars, downVars, progressBar, received, exc,
                   handled, out, exitStatus, unhandled, netVars>>

\* line 115: open raises (empty name, no permission); nothing is created
OpenFails ==
    /\ pc = "open"
    /\ Raise(IF sourceFileName \in FileNames THEN "PermissionError" ELSE "FileNotFoundError")
    /\ UNCHANGED <<args, fs, searchVars, modalVars, downVars, progressBar, received,
                   handled, out, exitStatus, unhandled, netVars>>

\* line 116: iter_content yields the next chunk, of at most chunk_size bytes
NextChunk ==
    /\ pc = "iter"
    /\ Len(received) < MaxChunks
    /\ \E c \in Chunks : received' = Append(received, c)
    /\ pc' = "write"
    /\ UNCHANGED <<args, fs, searchVars, modalVars, downVars, progressBar, fileOpen, exc,
                   handled, out, exitStatus, unhandled, netVars>>

\* line 116: iter_content is exhausted; leaving the with statement closes the file.
\* Nothing compares the bytes read with Content-Length: whether a body that ends
\* early ends the iteration or raises (ReadError) is up to the HTTP library.
IterEnd ==
    /\ pc = "iter"
    /\ fileOpen' = FALSE
    /\ pc' = "close"
    /\ UNCHANGED <<args, fs, searchVars, modalVars, downVars, progressBar, received, exc,
                   handled, out, exitStatus, unhandled, netVars>>

\* line 116: iter_content raises (connection lost, incomplete read)
ReadError ==
    /\ pc = "iter"
    /\ Raise("ConnectionError")
    /\ UNCHANGED <<args, fs, searchVars, modalVars, downVars, progressBar, received,
                   handled, out, exitStatus, unhandled, netVars>>

\* line 117
WriteChunk ==
    /\ pc = "write"
    /\ fs' = [fs EXCEPT ![sourceFileName].data = Append(@, received[Len(received)])]
    /\ pc' = "update"
    /\ UNCHANGED <<args, searchVars, modalVars, downVars, streamVars, out, exitStatus,
                   unhandled, netVars>>

\* line 117: file.write raises (disk full)
WriteFails ==
    /\ pc = "write"
    /\ Raise("OSError")
    /\ UNCHANGED <<args, fs, searchVars, modalVars, downVars, progressBar, received,
                   handled, out, exitStatus, unhandled, netVars>>

\* line 118 advancing by chunk_size instead of len(chunk)
UpdateBar_chunk_size ==
    /\ pc = "update"
    /\ progressBar' = [progressBar EXCEPT !.n = @ + ChunkSize]
    /\ pc' = "iter"
    /\ UNCHANGED <<args, fs, searchVars, modalVars, downVars, fileOpen, received, exc,
                   handled, out, exitStatus, unhandled, netVars>>

\* line 118
UpdateBar ==
    /\ pc = "update"
    /\ progressBar' = [progressBar EXCEPT !.n = @ + received[Len(received)].len]
    /\ pc' = "iter"
    /\ UNCHANGED <<args, fs, searchVars, modalVars, downVars, fileOpen, received, exc,
                   handled, out, exitStatus, unhandled, netVars>>

\* line 119
CloseBar ==
    /\ pc = "close"
    /\ progressBar' = [progressBar EXCEPT !.closed = TRUE]
    /\ pc' = "done"
    /\ UNCHANGED <<args, fs, searchVars, modalVars, downVars, fileOpen, received, exc,
                   handled, out, exitStatus, unhandled, netVars>>

\* line 120, then the end of the script
PrintDone ==
    /\ pc = "done"
    /\ out' = Append(out, [msg |-> "Done!", arg |-> <<>>])
    /\ Exit(0)
    /\ UNCHANGED <<args, fs, searchVars, modalVars, downVars, streamVars, netVars>>

\* Ctrl-C while a statement of the try block runs
Interrupt ==
    /\ pc \in TryPcs
    /\ Raise("KeyboardInterrupt")
    /\ UNCHANGED <<args, fs, searchVars, modalVars, downVars, progressBar, received,
                   handled, out, exitStatus, unhandled, netVars>>

\* lines 122-125 and 127-130: progressBar.close(); os.remove(sourceFileName);
\* print(message); exit(code).  A name that was never bound raises NameError and
\* os.remove of a missing file raises FileNotFoundError; an exception raised in
\* an except clause is not caught by the clauses of the same try.
Handler(message, code) ==
    /\ handled' = TRUE
    /\ IF ~progressBar.bound
       THEN /\ Crash("NameError")
            /\ UNCHANGED <<progressBar, fs, out>>
       ELSE /\ progressBar' = [progressBar EXCEPT !.closed = TRUE]
            /\ IF sourceFileName \in FileNames /\ fs[sourceFileName].exists
               THEN /\ fs' = [fs EXCEPT ![sourceFileName] = NoFile]
                    /\ out' = Append(out, [msg |-> message, arg |-> <<>>])
                    /\ Exit(code)
               ELSE /\ Crash("FileNotFoundError")
                    /\ UNCHANGED <<fs, out>>
    /\ UNCHANGED <<args, searchVars, modalVars, downVars, fileOpen, received, exc, netVars>>

\* lines 121-125
ExceptKeyboardInterrupt ==
    /\ pc = "except"
    /\ exc = "KeyboardInterrupt"
    /\ Handler("Interrupted!", 130)

\* lines 126-130
ExceptOther ==
    /\ pc = "except"
    /\ exc # "KeyboardInterrupt"
    /\ Handler("Error!", 1)

(* ---------------------- specification ---------------------------------- *)
Next ==
    \/ SearchGet \/ SearchReturn \/ ParseRow \/ RowsDone
    \/ CmdSearch \/ CmdNone \/ Select
    \/ ModalGet \/ ModalReturn \/ ExtractTokens
    \/ Post \/ PostReturn \/ ParseHeaders \/ RequestFails
    \/ PrintDownloading \/ MakeBar \/ OpenFile \/ OpenFails
    \/ NextChunk \/ IterEnd \/ ReadError \/ WriteChunk \/ WriteFails \/ UpdateBar
    \/ CloseBar \/ PrintDone \/ Interrupt
    \/ ExceptKeyboardInterrupt \/ ExceptOther

Spec == Init /\ [][Next]_vars

(* ======================= claims ======================================== *)
\* the search response has been parsed to its last row without a fault
ParseComplete ==
    /\ requestSearch # <<>>
    /\ index = Len(requestSearch[1])
    /\ pc \notin {"search_get", "search_wait", "rows"}

\* no candidate carries the requested version
NoMatch == \A i \in DOMAIN dataList : dataList[i]["sourceVersion"] # args.version

\* urls of the requests issued so far
Urls == [k \in DOMAIN reqs |-> reqs[k].url]

\* C1: download with a version that no parsed candidate carries: once past the
\* selection the process has printed the diagnostic and exited with status 1,
\* and neither the modal GET nor the download POST has been issued.
C1_NoMatchExitsWithoutRequests ==
    (args.command = "download" /\ ParseComplete /\ NoMatch) =>
        /\ Urls = <<searchURL>>
        /\ pc # "command" =>
            /\ pc = "exited"
            /\ exitStatus = 1
            /\ unhandled = ""
            /\ out = <<[msg |-> "Invalid source version: ", arg |-> args.version]>>

C1_Witness ==
    /\ args.command = "download" /\ ParseComplete /\ NoMatch
    /\ Len(dataList) = 2
    /\ pc = "exited" /\ exitStatus = 1

CandidateKeys == {"uploadId", "downloadPurpose", "sourceVersion", "sourceModel"}
TokenKeys == {"attachIds", "_csrf", "token"}

\* C7: the record posted has exactly the four candidate fields, unchanged from
\* the search result, plus the three token fields taken from the modal page;
\* every other candidate is as the search stage produced it.
C7_MergeKeepsCandidate ==
    \A k \in DOMAIN reqs :
        reqs[k].url = downSrcURL =>
            LET sent == reqs[k].data
                row == requestSearch[1][selectedSource]
            IN /\ DOMAIN sent = CandidateKeys \cup TokenKeys
               /\ Cardinality(DOMAIN sent) = 7
               /\ \A f \in CandidateKeys : sent[f] = Candidate(row)[f]
               /\ sent["attachIds"] = requestModal.checkboxes[2]
               /\ sent["_csrf"] = requestModal.csrf[1]
               /\ sent["token"] = Encode(requestModal.token[1])
               /\ \A i \in DOMAIN sent["token"] : sent["token"][i] \in 0..255
               /\ \A i \in DOMAIN dataList :
                    i # selectedSource => dataList[i] = Candidate(requestSearch[1][i])

C7_Witness ==
    /\ Len(reqs) = 3
    /\ Len(dataList) = 2
    /\ selectedSource = 2
    /\ reqs[3].data["token"] = <<116, 195, 169>>

\* C8: at most one request is outstanding, each endpoint is requested at most
\* once and in the order search, modal, download; the modal GET follows the
\* complete parse of the search page, the download POST follows the modal
\* response and the extraction of the three token fields.
C8_SequentialNoRetry ==
    /\ Cardinality(inflight) <= 1
    /\ Urls \in {<<>>, <<searchURL>>, <<searchURL, modalURL>>,
                 <<searchURL, modalURL, downSrcURL>>}
    /\ Len(reqs) >= 2 =>
        /\ requestSearch # <<>>
        /\ index = Len(requestSearch[1])
        /\ Len(dataList) = Len(requestSearch[1])
        /\ searchURL \notin inflight
    /\ Len(reqs) >= 3 =>
        /\ modalURL \notin inflight
        /\ Len(requestModal.checkboxes) >= 2
        /\ TokenKeys \subseteq DOMAIN dataList[selectedSource]
        /\ TokenKeys \subseteq DOMAIN reqs[3].data

C8_Witness ==
    /\ Len(reqs) = 3
    /\ inflight = {}
    /\ pc = "exited"
    /\ exitStatus = 0

\* the destination file is present in the working directory
DestExists == sourceFileName \in FileNames /\ fs[sourceFileName].exists

\* the last line printed
LastMsg == IF out = <<>> THEN "" ELSE out[Len(out)].msg

\* C5: with no exception, after every iteration of the chunk loop the file
\* holds the chunks received so far, in arrival order, and the indicator's
\* value is the number of bytes written; at completion both are the N bytes
\* of the body.
C5_StreamWritesAllBytes ==
    /\ (pc = "iter" /\ exc = "") =>
        /\ fs[sourceFileName].data = received
        /\ progressBar.n = Total(fs[sourceFileName].data)
    /\ ((pc \in {"close", "done"} \/ (pc = "exited" /\ LastMsg = "Done!")) /\ exc = "") =>
        /\ fs[sourceFileName].exists
        /\ fs[sourceFileName].data = received
        /\ progressBar.n = Total(received)
        /\ \A i \in DOMAIN received : received[i].len <= ChunkSize
        /\ progressBar.total = sourceSize

C5_Witness ==
    /\ pc = "exited" /\ LastMsg = "Done!" /\ exitStatus = 0
    /\ Len(received) = 2
    /\ received[1] # received[2]
    /\ progressBar.n = ChunkSize + 1

\* the second single-quote-delimited field of an href, stated by positions
SecondQuoteField(h) ==
    LET Q == {k \in 1..Len(h) : h[k] = "'"}
        q1 == CHOOSE k \in Q : \A j \in Q : k <= j
        R == Q \ {q1}
        q2 == IF R = {} THEN Len(h) + 1 ELSE CHOOSE k \in R : \A j \in R : k <= j
    IN SubSeq(h, q1 + 1, q2 - 1)

\* t is s without its leading and trailing whitespace
IsStripOf(t, s) ==
    /\ t = <<>> \/ (~IsSpace(t[1]) /\ ~IsSpace(t[Len(t)]))
    /\ \E a \in 0..Len(s) :
        /\ a + Len(t) <= Len(s)
        /\ SubSeq(s, a + 1, a + Len(t)) = t
        /\ \A k \in (1..a) \cup ((a + Len(t) + 1)..Len(s)) : IsSpace(s[k])

\* one candidate per row parsed so far, in page order, each uploadId the
\* second quote-delimited field of the href of the anchor in the sixth cell
CandidatesFollowRows ==
    /\ Len(dataList) = index
    /\ \A i \in DOMAIN dataList :
        /\ dataList[i]["uploadId"] = SecondQuoteField(requestSearch[1][i][6].anchors[1])
        /\ IsStripOf(dataList[i]["sourceModel"], requestSearch[1][i][2].text)

\* C9 as stated: every candidate's sourceVersion is a non-empty string
C9_VersionNonEmpty ==
    /\ CandidatesFollowRows
    /\ \A i \in DOMAIN dataList : dataList[i]["sourceVersion"] # <<>>

\* C9 as amended: every candidate's sourceVersion is the text of the third cell
\* of its row without the surrounding whitespace (empty when the cell is blank)
C9_VersionIsStrippedCell ==
    /\ CandidatesFollowRows
    /\ \A i \in DOMAIN dataList :
        IsStripOf(dataList[i]["sourceVersion"], requestSearch[1][i][3].text)

C9_Witness ==
    /\ ParseComplete
    /\ Len(dataList) = 2
    /\ dataList[1]["sourceVersion"] = <<>>
    /\ dataList[2]["sourceVersion"] = <<"b">>
    /\ dataList[1]["uploadId"] = <<"2">>

\* the run has not reached the try block of line 112
BeforeStreaming ==
    ~(/\ Len(reqs) = 3
      /\ inflight = {}
      /\ pc # "headers"
      /\ HeaderFault(requestDown) = "")

\* the run ended the way the script provides for, without a fault
CleanEnd == ParseComplete /\ (args.command \in {"search", "none"} \/ NoMatch)

\* C10: in a run that ends before streaming starts no step changes the working
\* directory, no except clause is entered, and a fault ends the script unhandled
\* with nothing printed.
C10_NoFileAccessBeforeStreaming ==
    /\ [](BeforeStreaming =>
            /\ ~handled
            /\ exc = ""
            /\ ~progressBar.bound
            /\ pc = "exited" =>
                IF CleanEnd
                THEN unhandled = ""
                ELSE unhandled # "" /\ exitStatus = 1 /\ out = <<>>)
    /\ [][BeforeStreaming' => fs' = fs]_vars

C10_Witness ==
    /\ BeforeStreaming
    /\ pc = "exited"
    /\ Len(reqs) = 3
    /\ unhandled = "ValueError"
    /\ fs[<<"f">>] = OldFile

\* C2 as stated: an interruption anywhere in the try block ends with the
\* indicator closed, "Interrupted!" printed, exit status 130 and no
\* destination file.
C2_InterruptCleansUp ==
    (pc = "exited" /\ exc = "KeyboardInterrupt") =>
        /\ progressBar.closed
        /\ LastMsg = "Interrupted!"
        /\ exitStatus = 130
        /\ ~DestExists

\* C3 as stated: any other exception in the try block ends with the indicator
\* closed, "Error!" printed, exit status 1 and no destination file.
C3_ErrorCleansUp ==
    (pc = "exited" /\ exc \notin {"", "KeyboardInterrupt"}) =>
        /\ progressBar.closed
        /\ LastMsg = "Error!"
        /\ exitStatus = 1
        /\ ~DestExists

\* C4 as stated: in a terminal state reached after the statement that opens the
\* destination file, the file holds Content-Length bytes or does not exist.
\* (A run stopped at line 115 before the file is created is included: there the
\* file never exists at the end.)
C4_FullOrDeleted ==
    (pc = "exited" /\ progressBar.bound /\ sourceFileName \in FileNames) =>
        \/ ~fs[sourceFileName].exists
        \/ Total(fs[sourceFileName].data) = sourceSize

====
